---- MODULE Spec2Model ----
(***************************************************************************)
(* The term extraction and storage workflow of                             *)
(* streamlit_term_definition/streamlit_demo.py.                            *)
(*                                                                         *)
(* Text is a sequence of one-character strings, so that str.split, the     *)
(* `in` test and str.strip act on characters as they do in Python.  A      *)
(* dict is a sequence of <<key, value>> pairs with distinct keys, in       *)
(* insertion order.                                                        *)
(*                                                                         *)
(* SpecExtract applies the answer parsing of extract_terms to bounded LLM  *)
(* answers.  SpecInsert runs insert_terms on bounded mappings.  Spec is    *)
(* the session machine: the Streamlit script's button handlers, run by     *)
(* two browser sessions of one server process.                             *)
(***************************************************************************)
EXTENDS Integers, Sequences, FiniteSets, TLC

VARIABLES
    answer,               \* str(query response), line 58, the text being parsed
    terms_to_definition,  \* the dict extract_terms returns, line 76
    xpc,                  \* position of the extract_terms call
    objects,              \* the dict objects of the process, by name
    index_cache,          \* st.cache_resource of initialize_index: for each
                          \* configuration loaded, the documents inserted
                          \* into its index object since it was loaded
    session_state,        \* st.session_state of each browser session
    pc,                   \* each session's script run: "idle" between
                          \* runs, "insert_terms" inside the insert loop
    pos,                  \* pairs the running insert_terms call has passed
    inserted,             \* documents that call has inserted, in order
    outcome               \* how each session's last handler ended

xvars == <<answer, terms_to_definition, xpc>>

svars == <<objects, index_cache, session_state, pc, pos, inserted, outcome>>

vars == <<answer, terms_to_definition, xpc,
          objects, index_cache, session_state, pc, pos, inserted, outcome>>

(***************************************************************************)
(* Text                                                                    *)
(***************************************************************************)
TermMarker == <<"T", "e", "r", "m", ":">>

DefinitionMarker == <<"D", "e", "f", "i", "n", "i", "t", "i", "o", "n", ":">>

NL == <<"\n">>

SP == <<" ">>

\* The characters str.strip() removes.
Whitespace == {" ", "\t", "\n", "\r", "\f"}

Min(S) == CHOOSE m \in S : \A n \in S : m <= n

Max(S) == CHOOSE m \in S : \A n \in S : m >= n

Last(s) == s[Len(s)]

\* The positions at which sub occurs in x.
occurrences(x, sub) ==
    {p \in 1..(Len(x) - Len(sub) + 1) : SubSeq(x, p, p + Len(sub) - 1) = sub}

\* str.find, 1-based; 0 when sub does not occur.
find(x, sub) ==
    IF occurrences(x, sub) = {} THEN 0 ELSE Min(occurrences(x, sub))

\* sub in x
contains(x, sub) == find(x, sub) # 0

\* x.split(sep): the parts between the occurrences of sep, scanned left to
\* right without overlap; <<x>> when sep does not occur.
RECURSIVE split(_, _)
split(x, sep) ==
    LET p == find(x, sep)
    IN  IF p = 0
        THEN <<x>>
        ELSE <<SubSeq(x, 1, p - 1)>> \o split(SubSeq(x, p + Len(sep), Len(x)), sep)

\* x.strip()
strip(x) ==
    LET solid == {p \in 1..Len(x) : x[p] \notin Whitespace}
    IN  IF solid = {} THEN <<>> ELSE SubSeq(x, Min(solid), Max(solid))

(***************************************************************************)
(* dict                                                                    *)
(***************************************************************************)
EmptyDict == <<>>

Keys(d) == {d[j][1] : j \in 1..Len(d)}

Lookup(d, k) == d[CHOOSE j \in 1..Len(d) : d[j][1] = k][2]

\* d[k] = v: an existing key keeps its place, a new key goes last.
dict_set(d, k, v) ==
    IF k \in Keys(d)
    THEN [j \in 1..Len(d) |-> IF d[j][1] = k THEN <<k, v>> ELSE d[j]]
    ELSE Append(d, <<k, v>>)

\* A slip: existing keys keep their value (setdefault instead of update).
RECURSIVE update_keep_existing(_, _)
update_keep_existing(d, other) ==
    IF other = <<>>
    THEN d
    ELSE update_keep_existing(
             IF Head(other)[1] \in Keys(d)
             THEN d
             ELSE Append(d, Head(other)),
             Tail(other))

\* d.update(other)
RECURSIVE update(_, _)
update(d, other) ==
    IF other = <<>>
    THEN d
    ELSE update(dict_set(d, Head(other)[1], Head(other)[2]), Tail(other))

(***************************************************************************)
(* extract_terms: parsing the answer, lines 63-76                          *)
(***************************************************************************)
\* A slip: the answer is not cut into lines.
answer_unsplit(text) == <<text>>

\* terms_definitions.split("\n"), line 65
answer_lines(text) == split(text, NL)

\* A slip: one marker is enough.
keep_line_either(x) == x # <<>> /\ (contains(x, TermMarker) \/ contains(x, DefinitionMarker))

\* if x and "Term:" in x and "Definition:" in x, line 66
keep_line(x) == x # <<>> /\ contains(x, TermMarker) /\ contains(x, DefinitionMarker)

\* The list comprehension of lines 63-67.
terms_definitions(text) == SelectSeq(answer_lines(text), keep_line)

\* x.split("Definition:")[0].split("Term:")[-1].strip(), lines 70-72
term_of(x) == strip(Last(split(Head(split(x, DefinitionMarker)), TermMarker)))

\* A slip: index 1 instead of -1, the part after the first "Definition:".
definition_of_second_part(x) == strip(split(x, DefinitionMarker)[2])

\* x.split("Definition:")[-1].strip(), lines 72-73
definition_of(x) == strip(Last(split(x, DefinitionMarker)))

\* The dict comprehension of lines 69-75: entries are set in line order.
RECURSIVE dict_of_lines(_, _)
dict_of_lines(d, lines) ==
    IF lines = <<>>
    THEN d
    ELSE dict_of_lines(
             dict_set(d, term_of(Head(lines)), definition_of(Head(lines))),
             Tail(lines))

\* What extract_terms returns for the answer text, lines 63-76.
extract_terms(text) == dict_of_lines(EmptyDict, terms_definitions(text))

(***************************************************************************)
(* insert_terms: the document of one pair, line 81                         *)
(***************************************************************************)
\* A slip: the pair is written on one line.
document_on_one_line(term, definition) ==
    TermMarker \o SP \o term \o SP \o DefinitionMarker \o SP \o definition

\* f"Term: {term}\nDefinition: {definition}"
document_text_of(term, definition) ==
    TermMarker \o SP \o term \o NL \o DefinitionMarker \o SP \o definition

(***************************************************************************)
(* Bounded LLM answers                                                     *)
(***************************************************************************)
MaxPieces == 5

Pieces == {TermMarker, DefinitionMarker, SP, NL, <<"a">>, <<"b">>}

RECURSIVE Texts(_)
Texts(n) ==
    IF n = 0
    THEN {<<>>}
    ELSE LET S == Texts(n - 1) IN S \cup {p \o t : p \in Pieces, t \in S}

Words == {<<"a">>, <<"b">>, <<"a", " ", "b">>}

ExampleFooLine == <<"T", "e", "r", "m", ":", " ", "F", "o", "o", " ", " ", "D", "e", "f", "i", "n", "i", "t", "i", "o", "n", ":", " ", "a", " ", "c", "i", "t", "y">>

Foo == <<"F", "o", "o">>

ACity == <<"a", " ", "c", "i", "t", "y">>

Borough == <<"B", "o", "r", "o", "u", "g", "h">>

BoroughDef == <<"o", "n", "e", " ", "o", "f", " ", "N", "Y", "C", "'", "s", " ", "f", "i", "v", "e", " ", "d", "i", "v", "i", "s", "i", "o", "n", "s">>

ExtraText == <<"T", "h", "i", "s", " ", "i", "s", " ", "e", "x", "t", "r", "a", " ", "t", "e", "x", "t">>

\* "Term: t" newline "Definition: d" newline unrelated text.
SeparateLinesText(t, d, extra) == document_text_of(t, d) \o NL \o extra

ExampleBoroughText == SeparateLinesText(Borough, BoroughDef, ExtraText)

SeparateLinesTexts ==
    {SeparateLinesText(t, d, e) : t \in Words, d \in Words, e \in Words}
        \cup {ExampleBoroughText}

Answers == Texts(MaxPieces) \cup SeparateLinesTexts \cup {ExampleFooLine}

(***************************************************************************)
(* The session machine                                                     *)
(***************************************************************************)
Sessions == {"s1", "s2"}

\* The (llm_name, model_temperature, api_key) settings of the Setup tab.
Configs == {"davinci", "gpt4"}

\* A mapping with no keys: an empty st.session_state, an empty cache.
NoKeys == [k \in {} |-> {}]

\* f[k] = v on a mapping whose keys come and go.
SetKey(f, k, v) == [x \in DOMAIN f \cup {k} |-> IF x = k THEN v ELSE f[x]]

\* The name of the module-level dict constants.DEFAULT_TERMS.
DefaultObject == "DEFAULT_TERMS"

TermA == <<"a">>

TermB == <<"b">>

DefC == <<"c">>

DefD == <<"d">>

\* The content of DEFAULT_TERMS when the process starts.
DefaultTermsInit == <<<<TermA, DefC>>>>

\* One answer line of the form the extraction prompt asks for.
AnswerLine(t, d) == TermMarker \o SP \o t \o SP \o DefinitionMarker \o SP \o d

\* The answers the LLM gives in a session.
SessionAnswers ==
    { AnswerLine(TermA, DefD),
      AnswerLine(TermA, DefD) \o NL \o AnswerLine(TermB, DefC),
      <<"n", "o", "n", "e">> }

\* Documents an index object holds at most when an insert is started.
MaxDocs == 2

\* A fix of the aliasing: the session gets its own copy of the defaults.
bind_copy_of_default_terms(objs, s) ==
    [ref |-> s,
     objects |-> [o \in DOMAIN objs \cup {s} |->
                      IF o = s THEN objs[DefaultObject] ELSE objs[o]]]

\* st.session_state["all_terms"] = DEFAULT_TERMS, lines 24, 147, 218: the
\* session refers to the module's dict object itself, no copy is made.
bind_default_terms(objs, s) == [ref |-> DefaultObject, objects |-> objs]

\* initialize_index under st.cache_resource, lines 85-97: the first call for
\* a configuration loads the index from ./initial_index, every later call
\* with that configuration, from any session, returns that same object.
initialize_index(cache, cfg) ==
    IF cfg \in DOMAIN cache THEN cache ELSE SetKey(cache, cfg, <<>>)

\* The script has run in session s (lines 23-24 have set "all_terms").
Started(s) == "all_terms" \in DOMAIN session_state[s]

\* st.session_state["all_terms"] of session s, the Aggregate Term Set.
Aggregate(s) == objects[session_state[s]["all_terms"]]

\* The documents in the index object st.session_state["llama_index"] names.
IndexDocs(s) == index_cache[session_state[s]["llama_index"]]

\* "terms" in st.session_state and st.session_state["terms"], line 192
HasTerms(s) ==
    /\ "terms" \in DOMAIN session_state[s]
    /\ session_state[s]["terms"] # EmptyDict

Init ==
    /\ answer = <<>>
    /\ terms_to_definition = EmptyDict
    /\ xpc = "unused"
    /\ objects = [o \in {DefaultObject} |-> DefaultTermsInit]
    /\ index_cache = NoKeys
    /\ session_state = [s \in Sessions |-> NoKeys]
    /\ pc = [s \in Sessions |-> "idle"]
    /\ pos = [s \in Sessions |-> 0]
    /\ inserted = [s \in Sessions |-> <<>>]
    /\ outcome = [s \in Sessions |-> "none"]

\* The first script run of a session, lines 23-24.
FirstRun(s) ==
    /\ ~Started(s)
    /\ LET b == bind_default_terms(objects, s)
       IN  /\ objects' = b.objects
           /\ session_state' = [session_state EXCEPT ![s] = SetKey(@, "all_terms", b.ref)]
    /\ outcome' = [outcome EXCEPT ![s] = "started"]
    /\ UNCHANGED <<index_cache, pc, pos, inserted>>
    /\ UNCHANGED xvars

\* The body of both "Initialize Index and Reset Terms" buttons.
InitializeIndexAndResetTerms(s, cfg) ==
    /\ Started(s)
    /\ pc[s] = "idle"
    /\ index_cache' = initialize_index(index_cache, cfg)
    /\ LET b == bind_default_terms(objects, s)
       IN  /\ objects' = b.objects
           /\ session_state' =
                  [session_state EXCEPT
                      ![s] = SetKey(SetKey(@, "llama_index", cfg), "all_terms", b.ref)]
    /\ outcome' = [outcome EXCEPT ![s] = "reset"]
    /\ pos' = [pos EXCEPT ![s] = 0]
    /\ inserted' = [inserted EXCEPT ![s] = <<>>]
    /\ UNCHANGED pc
    /\ UNCHANGED xvars

\* Upload tab, key init_index_1, lines 143-147.
ResetFromUploadTab(s) == \E cfg \in Configs : InitializeIndexAndResetTerms(s, cfg)

\* Query tab, key init_index_2, lines 214-218.
ResetFromQueryTab(s) == \E cfg \in Configs : InitializeIndexAndResetTerms(s, cfg)

\* terms_docs of lines 161-189: extract_terms on the raw text, on the
\* uploaded image, or on both, each result merged with dict.update.
terms_docs_of(document_text, uploaded_file, text_answer, image_answer) ==
    LET from_text ==
            IF document_text
            THEN update(EmptyDict, extract_terms(text_answer))
            ELSE EmptyDict
    IN  IF uploaded_file
        THEN update(from_text, extract_terms(image_answer))
        ELSE from_text

\* Every terms_docs one click can produce.
PossibleTermsDocs ==
    {terms_docs_of(document_text, uploaded_file, text_answer, image_answer) :
        document_text \in BOOLEAN, uploaded_file \in BOOLEAN,
        text_answer \in SessionAnswers, image_answer \in SessionAnswers}

\* "Extract Terms and Definitions", lines 157-190, with raw text, an
\* uploaded image or both (the button does nothing with neither).
Extract(s) ==
    /\ Started(s)
    /\ pc[s] = "idle"
    /\ "llama_index" \in DOMAIN session_state[s]
    /\ \E terms_docs \in PossibleTermsDocs :
           session_state' =
               [session_state EXCEPT
                   ![s] = SetKey(@, "terms", update(EmptyDict, terms_docs))]
    /\ outcome' = [outcome EXCEPT ![s] = "extracted"]
    /\ pos' = [pos EXCEPT ![s] = 0]
    /\ inserted' = [inserted EXCEPT ![s] = <<>>]
    /\ UNCHANGED <<objects, index_cache, pc>>
    /\ UNCHANGED xvars

\* The same handler when the LLM or the image reader raises: line 160 has
\* run, line 190 has not.
ExtractFails(s) ==
    /\ Started(s)
    /\ pc[s] = "idle"
    /\ "llama_index" \in DOMAIN session_state[s]
    /\ session_state' = [session_state EXCEPT ![s] = SetKey(@, "terms", EmptyDict)]
    /\ outcome' = [outcome EXCEPT ![s] = "extract_failed"]
    /\ pos' = [pos EXCEPT ![s] = 0]
    /\ inserted' = [inserted EXCEPT ![s] = <<>>]
    /\ UNCHANGED <<objects, index_cache, pc>>
    /\ UNCHANGED xvars

\* "Insert terms?" is clicked, lines 192-198: insert_terms is entered.
InsertClick(s) ==
    /\ Started(s)
    /\ pc[s] = "idle"
    /\ HasTerms(s)
    /\ Len(IndexDocs(s)) + Len(session_state[s]["terms"]) <= MaxDocs
    /\ pc' = [pc EXCEPT ![s] = "insert_terms"]
    /\ pos' = [pos EXCEPT ![s] = 0]
    /\ inserted' = [inserted EXCEPT ![s] = <<>>]
    /\ outcome' = [outcome EXCEPT ![s] = "running"]
    /\ UNCHANGED <<objects, index_cache, session_state>>
    /\ UNCHANGED xvars

\* One iteration of the loop of insert_terms, lines 80-82.
InsertStep(s) ==
    /\ pc[s] = "insert_terms"
    /\ pos[s] < Len(session_state[s]["terms"])
    /\ LET pair == session_state[s]["terms"][pos[s] + 1]
           doc == document_text_of(pair[1], pair[2])
           handle == session_state[s]["llama_index"]
       IN  /\ index_cache' = [index_cache EXCEPT ![handle] = Append(@, doc)]
           /\ inserted' = [inserted EXCEPT ![s] = Append(@, doc)]
    /\ pos' = [pos EXCEPT ![s] = @ + 1]
    /\ UNCHANGED <<objects, session_state, pc, outcome>>
    /\ UNCHANGED xvars

\* A slip: insert_terms swallows the failure and goes on with the next pair.
InsertFailsSkipsPair(s) ==
    /\ pc[s] = "insert_terms"
    /\ pos[s] < Len(session_state[s]["terms"])
    /\ pos' = [pos EXCEPT ![s] = @ + 1]
    /\ outcome' = [outcome EXCEPT ![s] = "insert_failed"]
    /\ UNCHANGED <<objects, index_cache, session_state, pc, inserted>>
    /\ UNCHANGED xvars

\* A slip: the handler catches the failure and goes on to lines 200-202.
InsertFailsCaught(s) ==
    /\ pc[s] = "insert_terms"
    /\ pos[s] < Len(session_state[s]["terms"])
    /\ objects' = [objects EXCEPT
                      ![session_state[s]["all_terms"]] =
                          update(@, session_state[s]["terms"])]
    /\ session_state' = [session_state EXCEPT ![s] = SetKey(@, "terms", EmptyDict)]
    /\ pc' = [pc EXCEPT ![s] = "idle"]
    /\ outcome' = [outcome EXCEPT ![s] = "insert_failed"]
    /\ UNCHANGED <<index_cache, pos, inserted>>
    /\ UNCHANGED xvars

\* index.insert raises in an iteration, line 82: nothing catches it in
\* insert_terms or in the handler, so the script run ends there, lines
\* 200-202 do not run, and what was inserted before stays.
InsertFails(s) ==
    /\ pc[s] = "insert_terms"
    /\ pos[s] < Len(session_state[s]["terms"])
    /\ pc' = [pc EXCEPT ![s] = "idle"]
    /\ outcome' = [outcome EXCEPT ![s] = "insert_failed"]
    /\ UNCHANGED <<objects, index_cache, session_state, pos, inserted>>
    /\ UNCHANGED xvars

\* insert_terms has returned: lines 200-202 merge the terms into the dict
\* "all_terms" refers to, in place, and clear "terms".
InsertFinish(s) ==
    /\ pc[s] = "insert_terms"
    /\ pos[s] = Len(session_state[s]["terms"])
    /\ objects' = [objects EXCEPT
                      ![session_state[s]["all_terms"]] =
                          update(@, session_state[s]["terms"])]
    /\ session_state' = [session_state EXCEPT ![s] = SetKey(@, "terms", EmptyDict)]
    /\ pc' = [pc EXCEPT ![s] = "idle"]
    /\ outcome' = [outcome EXCEPT ![s] = "inserted"]
    /\ pos' = [pos EXCEPT ![s] = 0]
    /\ inserted' = [inserted EXCEPT ![s] = <<>>]
    /\ UNCHANGED index_cache
    /\ UNCHANGED xvars

\* A question typed in the Query tab, lines 220-234: the index is read and
\* the answer rendered, nothing is stored.
Query(s) ==
    /\ Started(s)
    /\ pc[s] = "idle"
    /\ "llama_index" \in DOMAIN session_state[s]
    /\ UNCHANGED svars
    /\ UNCHANGED xvars

Next ==
    \E s \in Sessions :
        \/ FirstRun(s)
        \/ ResetFromUploadTab(s)
        \/ ResetFromQueryTab(s)
        \/ Extract(s)
        \/ ExtractFails(s)
        \/ InsertClick(s)
        \/ InsertStep(s)
        \/ InsertFails(s)
        \/ InsertFinish(s)
        \/ Query(s)

Spec == Init /\ [][Next]_vars

(***************************************************************************)
(* SpecInsert: insert_terms called on one mapping, the empty one included  *)
(***************************************************************************)
MaxPairs == 2

InsertTermTexts == {TermA, TermB, <<"a", " ", "b">>}

InsertDefinitionTexts == {DefC, DefD}

\* The dicts of at most n pairs.
RECURSIVE DictsUpTo(_)
DictsUpTo(n) ==
    IF n = 0
    THEN {EmptyDict}
    ELSE LET S == DictsUpTo(n - 1)
         IN  S \cup {Append(d, <<t, v>>) :
                        d \in {e \in S : Len(e) = n - 1},
                        t \in InsertTermTexts,
                        v \in InsertDefinitionTexts}

InsertInputs ==
    {d \in DictsUpTo(MaxPairs) : Cardinality(Keys(d)) = Len(d)}

InitInsert ==
    /\ answer = <<>>
    /\ terms_to_definition = EmptyDict
    /\ xpc = "unused"
    /\ objects = [o \in {DefaultObject} |-> DefaultTermsInit]
    /\ \E caller \in Sessions, cfg \in Configs, d \in InsertInputs :
           /\ index_cache = SetKey(NoKeys, cfg, <<>>)
           /\ session_state =
                  [s \in Sessions |->
                      IF s = caller
                      THEN SetKey(SetKey(SetKey(NoKeys, "all_terms", DefaultObject),
                                         "llama_index", cfg),
                                  "terms", d)
                      ELSE NoKeys]
           /\ pc = [s \in Sessions |-> IF s = caller THEN "insert_terms" ELSE "idle"]
    /\ pos = [s \in Sessions |-> 0]
    /\ inserted = [s \in Sessions |-> <<>>]
    /\ outcome = [s \in Sessions |-> "running"]

NextInsert ==
    \E s \in Sessions :
        \/ InsertStep(s)
        \/ InsertFails(s)
        \/ InsertFinish(s)

SpecInsert == InitInsert /\ [][NextInsert]_vars

(***************************************************************************)
(* SpecExtract: extract_terms applied to one answer                        *)
(***************************************************************************)
InitExtract ==
    /\ answer \in Answers
    /\ terms_to_definition = EmptyDict
    /\ xpc = "query"
    /\ objects = [o \in {DefaultObject} |-> DefaultTermsInit]
    /\ index_cache = NoKeys
    /\ session_state = [s \in Sessions |-> NoKeys]
    /\ pc = [s \in Sessions |-> "idle"]
    /\ pos = [s \in Sessions |-> 0]
    /\ inserted = [s \in Sessions |-> <<>>]
    /\ outcome = [s \in Sessions |-> "none"]

\* Lines 63-76 on the answer the query engine returned.
ExtractTerms ==
    /\ xpc = "query"
    /\ terms_to_definition' = extract_terms(answer)
    /\ xpc' = "returned"
    /\ UNCHANGED answer
    /\ UNCHANGED svars

NextExtract == ExtractTerms

SpecExtract == InitExtract /\ [][NextExtract]_vars

(***************************************************************************)
(* Vocabulary of the claims about extract_terms, stated on positions of    *)
(* the answer text rather than through split and strip.                    *)
(***************************************************************************)
MarkerAt(x, m, p) ==
    /\ p + Len(m) - 1 <= Len(x)
    /\ \A q \in 1..Len(m) : x[p + q - 1] = m[q]

HasMarker(x, m) == \E p \in 1..Len(x) : MarkerAt(x, m, p)

FirstAt(x, m) == Min({p \in 1..Len(x) : MarkerAt(x, m, p)})

LastAt(x, m) == Max({p \in 1..Len(x) : MarkerAt(x, m, p)})

TextAfter(x, m, p) == SubSeq(x, p + Len(m), Len(x))

RECURSIVE TrimLeft(_)
TrimLeft(s) ==
    IF s # <<>> /\ Head(s) \in Whitespace THEN TrimLeft(Tail(s)) ELSE s

RECURSIVE TrimRight(_)
TrimRight(s) ==
    IF s # <<>> /\ s[Len(s)] \in Whitespace
    THEN TrimRight(SubSeq(s, 1, Len(s) - 1))
    ELSE s

Trimmed(s) == TrimRight(TrimLeft(s))

\* The lines of a text as <<first, last>> positions: the maximal stretches
\* without a newline (last = first - 1 for an empty line).
LineSpans(text) ==
    {sp \in (1..(Len(text) + 1)) \X (0..Len(text)) :
        /\ sp[2] >= sp[1] - 1
        /\ \A p \in sp[1]..sp[2] : text[p] # "\n"
        /\ (sp[1] = 1 \/ text[sp[1] - 1] = "\n")
        /\ (sp[2] = Len(text) \/ text[sp[2] + 1] = "\n")}

LineAt(text, sp) == SubSeq(text, sp[1], sp[2])

\* The lines that contain both markers.
BothMarkerSpans(text) ==
    {sp \in LineSpans(text) :
        /\ HasMarker(LineAt(text, sp), TermMarker)
        /\ HasMarker(LineAt(text, sp), DefinitionMarker)}

\* The part of a line before its first "Definition:".
PrefixOf(x) == SubSeq(x, 1, FirstAt(x, DefinitionMarker) - 1)

\* The text after the last "Term:" of the prefix; the whole prefix when it
\* holds no "Term:".
TermRegion(x) ==
    IF HasMarker(PrefixOf(x), TermMarker)
    THEN TextAfter(PrefixOf(x), TermMarker, LastAt(PrefixOf(x), TermMarker))
    ELSE PrefixOf(x)

AfterFirstDefinition(x) ==
    TextAfter(x, DefinitionMarker, FirstAt(x, DefinitionMarker))

AfterLastDefinition(x) ==
    TextAfter(x, DefinitionMarker, LastAt(x, DefinitionMarker))

\* No later retained line of the text gives the same term as the line at sp.
LastForItsTerm(text, sp) ==
    \A other \in BothMarkerSpans(text) :
        other[1] > sp[1] =>
            Trimmed(TermRegion(LineAt(text, other)))
                # Trimmed(TermRegion(LineAt(text, sp)))

Returned == xpc = "returned"

(***************************************************************************)
(* C1: the mapping extract_terms returns has an entry only for answer      *)
(* lines that contain both "Term:" and "Definition:": every entry is the   *)
(* entry of such a line, every such line's term is a key, no two entries   *)
(* share a key, and with no such line the mapping is empty.                *)
(***************************************************************************)
C1_OnlyLinesWithBothMarkers ==
    Returned =>
        /\ \A j \in 1..Len(terms_to_definition) :
               \E sp \in BothMarkerSpans(answer) :
                   terms_to_definition[j] =
                       <<term_of(LineAt(answer, sp)), definition_of(LineAt(answer, sp))>>
        /\ \A sp \in BothMarkerSpans(answer) :
               term_of(LineAt(answer, sp)) \in Keys(terms_to_definition)
        /\ Cardinality(Keys(terms_to_definition)) = Len(terms_to_definition)
        /\ (BothMarkerSpans(answer) = {} => terms_to_definition = EmptyDict)

\* An answer with one line holding both markers and another line holding
\* only "Term:" has been parsed into a single entry.
C1_Witness ==
    /\ Returned
    /\ Cardinality(BothMarkerSpans(answer)) = 1
    /\ \E sp \in LineSpans(answer) \ BothMarkerSpans(answer) :
           HasMarker(LineAt(answer, sp), TermMarker)
    /\ Len(terms_to_definition) = 1

(***************************************************************************)
(* C2 as amended: for every retained line the entry is (term, definition)  *)
(* with the definition the trimmed text after the LAST "Definition:" of    *)
(* the line and the term the trimmed text after the last "Term:" of the    *)
(* prefix before the first "Definition:" (the whole trimmed prefix when    *)
(* it holds no "Term:"); of lines giving the same term the last one        *)
(* stands.  "Term: Foo  Definition: a city" gives ("Foo", "a city").       *)
(***************************************************************************)
C2_EntryOfRetainedLine ==
    Returned =>
        /\ \A sp \in BothMarkerSpans(answer) :
               LET x == LineAt(answer, sp)
                   k == Trimmed(TermRegion(x))
               IN  LastForItsTerm(answer, sp) =>
                       /\ k \in Keys(terms_to_definition)
                       /\ Lookup(terms_to_definition, k) = Trimmed(AfterLastDefinition(x))
        /\ (answer = ExampleFooLine => terms_to_definition = <<<<Foo, ACity>>>>)

\* A retained line with "Definition:" twice and text between the two
\* occurrences has been parsed.
C2_Witness ==
    /\ Returned
    /\ \E sp \in BothMarkerSpans(answer) :
           LET x == LineAt(answer, sp)
           IN  /\ FirstAt(x, DefinitionMarker) # LastAt(x, DefinitionMarker)
               /\ Trimmed(AfterFirstDefinition(x)) # Trimmed(AfterLastDefinition(x))
               /\ Lookup(terms_to_definition, Trimmed(TermRegion(x)))
                      = Trimmed(AfterLastDefinition(x))

\* C2 as stated: the definition is the trimmed text after the FIRST
\* "Definition:" of the line (lines whose prefix holds a "Term:").
C2_Original_DefinitionAfterFirst ==
    Returned =>
        \A sp \in BothMarkerSpans(answer) :
            LET x == LineAt(answer, sp)
                k == Trimmed(TermRegion(x))
            IN  (LastForItsTerm(answer, sp) /\ HasMarker(PrefixOf(x), TermMarker)) =>
                    /\ k \in Keys(terms_to_definition)
                    /\ Lookup(terms_to_definition, k) = Trimmed(AfterFirstDefinition(x))

(***************************************************************************)
(* C3 as amended: when the answer is "Term: t", newline, "Definition: d",  *)
(* newline, unrelated text, no line holds both markers and extract_terms   *)
(* returns the empty mapping.                                              *)
(***************************************************************************)
C3_SeparateLinesGiveEmptyMapping ==
    (Returned /\ answer \in SeparateLinesTexts) => terms_to_definition = EmptyDict

\* The Borough scenario has been parsed, to the empty mapping.
C3_Witness ==
    /\ Returned
    /\ answer = ExampleBoroughText
    /\ terms_to_definition = EmptyDict

\* C3 as stated: the mapping is {t: d}.
C3_Original_SeparateLinesGivePair ==
    Returned =>
        \A t \in Words \cup {Borough}, d \in Words \cup {BoroughDef}, e \in Words \cup {ExtraText} :
            answer = SeparateLinesText(t, d, e) => terms_to_definition = <<<<t, d>>>>

(***************************************************************************)
(* Vocabulary of the claims about the term store                           *)
(***************************************************************************)
\* The content the document of a pair is to have.
ExpectedDocument(pair) ==
    <<"T", "e", "r", "m", ":", " ">> \o pair[1]
        \o <<"\n", "D", "e", "f", "i", "n", "i", "t", "i", "o", "n", ":", " ">>
        \o pair[2]

\* The documents of the first n pairs of a dict, in its iteration order.
ExpectedDocuments(d, n) == [j \in 1..n |-> ExpectedDocument(d[j])]

Range(f) == {f[x] : x \in DOMAIN f}

\* a occurs in b as a subsequence.
RECURSIVE IsSubsequence(_, _)
IsSubsequence(a, b) ==
    IF a = <<>>
    THEN TRUE
    ELSE IF b = <<>>
         THEN FALSE
         ELSE IF Head(a) = Head(b)
              THEN IsSubsequence(Tail(a), Tail(b))
              ELSE IsSubsequence(a, Tail(b))

\* The step ends the insert handler of session s after lines 200-202.
InsertCompletes(s) ==
    pc[s] = "insert_terms" /\ pc'[s] = "idle" /\ outcome'[s] = "inserted"

\* The step is an insertion by the insert_terms call of session s.
Inserts(s) ==
    pc[s] = "insert_terms" /\ pc'[s] = "insert_terms" /\ inserted'[s] # inserted[s]

\* The step is one of the insert handler of session s.
InsertActs(s) ==
    pc[s] = "insert_terms" /\ (pos'[s] # pos[s] \/ pc'[s] # pc[s])

\* The entries of a dict that are not entries of the original defaults.
MergedEntries(d) == Range(d) \ Range(DefaultTermsInit)

\* The terms whose documents are among docs.
TermsInserted(docs) ==
    {t \in {TermA, TermB} :
        \E v \in {DefC, DefD} : ExpectedDocument(<<t, v>>) \in Range(docs)}

\* A session at rest with an index handle.
AtRest(s) ==
    Started(s) /\ pc[s] = "idle" /\ "llama_index" \in DOMAIN session_state[s]

(***************************************************************************)
(* C4: insert_terms on a mapping of n pairs performs exactly n index       *)
(* insertions, one per pair in the mapping's iteration order, the i-th     *)
(* document being "Term: {term}\nDefinition: {definition}" of the i-th     *)
(* pair; each insertion appends that one document to the index and         *)
(* nothing else changes the index; an empty mapping inserts nothing.       *)
(***************************************************************************)
C4_OneInsertionPerPairInOrder ==
    [][/\ \A s \in Sessions :
              pc[s] = "insert_terms" =>
                  LET d == session_state[s]["terms"]
                      handle == session_state[s]["llama_index"]
                  IN  /\ pos[s] <= Len(d)
                      /\ inserted[s] = ExpectedDocuments(d, pos[s])
                      /\ Inserts(s) =>
                             /\ pos[s] < Len(d)
                             /\ inserted'[s] = ExpectedDocuments(d, pos[s] + 1)
                             /\ index_cache' =
                                    [index_cache EXCEPT
                                        ![handle] = Append(@, ExpectedDocument(d[pos[s] + 1]))]
                      /\ InsertCompletes(s) =>
                             /\ inserted[s] = ExpectedDocuments(d, Len(d))
                             /\ index_cache' = index_cache
       /\ \A cfg \in DOMAIN index_cache :
              index_cache'[cfg] # index_cache[cfg] => \E s \in Sessions : Inserts(s)
      ]_vars

\* insert_terms has passed both pairs of a two-pair mapping.
C4_Witness ==
    \E s \in Sessions :
        /\ pc[s] = "insert_terms"
        /\ Len(session_state[s]["terms"]) = 2
        /\ pos[s] = 2
        /\ Len(inserted[s]) = 2
        /\ inserted[s][1] # inserted[s][2]

(***************************************************************************)
(* C5: when the k-th insertion of an insert_terms batch fails, the         *)
(* documents of the first k-1 pairs remain in the index, no later pair is  *)
(* inserted, and the failure ends the handler: the script run is over and  *)
(* the extracted terms are neither merged away nor cleared.                *)
(***************************************************************************)
C5_FailureKeepsEarlierInsertions ==
    \A s \in Sessions :
        outcome[s] = "insert_failed" =>
            /\ pc[s] = "idle"
            /\ HasTerms(s)
            /\ pos[s] < Len(session_state[s]["terms"])
            /\ inserted[s] = ExpectedDocuments(session_state[s]["terms"], pos[s])
            /\ IsSubsequence(inserted[s], IndexDocs(s))

\* The second insertion of a two-pair batch has failed.
C5_Witness ==
    \E s \in Sessions :
        /\ outcome[s] = "insert_failed"
        /\ Len(session_state[s]["terms"]) = 2
        /\ pos[s] = 1
        /\ Len(inserted[s]) = 1

(***************************************************************************)
(* C6: the merge of line 200 gives a mapping whose keys are the union of   *)
(* the keys of the Aggregate Term Set and of the approved terms, every     *)
(* key of the approved terms mapped to their definition and every other    *)
(* key keeping its definition; {a: c} merged with {a: d, b: c} is          *)
(* {a: d, b: c}.                                                           *)
(***************************************************************************)
C6_MergeIsUnionIncomingWins ==
    [][\A s \in Sessions :
           InsertCompletes(s) =>
               LET existing == Aggregate(s)
                   incoming == session_state[s]["terms"]
                   merged == objects'[session_state[s]["all_terms"]]
               IN  /\ Keys(merged) = Keys(existing) \cup Keys(incoming)
                   /\ Cardinality(Keys(merged)) = Len(merged)
                   /\ \A k \in Keys(incoming) : Lookup(merged, k) = Lookup(incoming, k)
                   /\ \A k \in Keys(existing) \ Keys(incoming) :
                          Lookup(merged, k) = Lookup(existing, k)
                   /\ (existing = <<<<TermA, DefC>>>>
                          /\ incoming = <<<<TermA, DefD>>, <<TermB, DefC>>>>)
                       => merged = <<<<TermA, DefD>>, <<TermB, DefC>>>>
      ]_vars

\* {a: d, b: c} has been merged into {a: c}.
C6_Witness ==
    \E s \in Sessions :
        /\ outcome[s] = "inserted"
        /\ Aggregate(s) = <<<<TermA, DefD>>, <<TermB, DefC>>>>

(***************************************************************************)
(* C7: the default term mapping is never modified, and at the start of a   *)
(* session and right after every "Initialize Index and Reset Terms" the    *)
(* Aggregate Term Set equals the original default mapping.                 *)
(***************************************************************************)
C7_DefaultsFixedAndRestored ==
    /\ objects[DefaultObject] = DefaultTermsInit
    /\ \A s \in Sessions :
           outcome[s] \in {"started", "reset"} => Aggregate(s) = DefaultTermsInit

C9_SessionsShareNothing ==
    [][\A s \in Sessions, t \in Sessions :
           (s # t /\ Started(t) /\ InsertActs(s)) =>
               /\ objects'[session_state[t]["all_terms"]] = Aggregate(t)
               /\ "llama_index" \in DOMAIN session_state[t] =>
                      index_cache'[session_state[t]["llama_index"]] = IndexDocs(t)
      ]_vars

====
